---- MODULE Spec2Model ----
(***************************************************************************)
(* Model of src/lulc_classification_gee.js: the per-region LULC pipeline   *)
(* (stableGeom, getComposite, autoSamples, trainRF, classify) and the      *)
(* EXECUTION loop that drives it over a FeatureCollection.                 *)
(*                                                                         *)
(* Rasters are modelled by what the claims read of them: a Sentinel-2      *)
(* image is its SCL band and its validity mask, pixel by pixel; the        *)
(* WorldCover raster of a region is its histogram (category value ->       *)
(* number of pixels); a sample set is the histogram of its labels.         *)
(* Earth Engine objects are lazy: a failed computation is a value with     *)
(* ok = FALSE that propagates to whatever is built from it, and only       *)
(* getInfo() throws on the client.                                         *)
(***************************************************************************)
EXTENDS Integers, Sequences, FiniteSets, TLC

VARIABLES
  APPLY_CLOUD_MASK, \* line 33: the cloud-mask flag
  BANDS10,          \* line 27: the global band list
  fc,               \* line 119: the FeatureCollection, as the list of its features
  world,            \* what the catalogues hold over each feature's footprint
  pc,               \* position of the script
  n, i,             \* lines 129, 131
  f, name, geom, comp, inputBands, samples, clf, lulc, \* loop-body vars (132-143)
  layers,           \* the Map's layers, in the order they were added
  trace,            \* history: the pipeline stages run, as <<i, stage>>
  call              \* a single call of a helper function and what it computed

vars == <<APPLY_CLOUD_MASK, BANDS10, fc, world, pc, n, i, f, name, geom, comp,
          inputBands, samples, clf, lulc, layers, trace, call>>

(* ------------------------------ bounds -------------------------------- *)

\* pixels per Sentinel-2 image
NPix == 2
\* images of one region's date window
MaxImages == 2
\* regions (features) in a batch
MaxRegions == 2
\* distinct WorldCover category values present in one region
MaxStrata == 2

(* --------------------------- small helpers ---------------------------- *)

Range(s) == {s[k] : k \in DOMAIN s}

SeqsUpTo(S, m) == UNION {[1..k -> S] : k \in 0..m}

RECURSIVE SumOver(_, _)
SumOver(h, S) ==
  IF S = {} THEN 0
  ELSE LET x == CHOOSE y \in S : TRUE IN h[x] + SumOver(h, S \ {x})

\* total number of entries of a histogram
Total(h) == SumOver(h, DOMAIN h)

(* --------------------------- configuration ---------------------------- *)

\* line 27
BANDS10_INIT == <<"B2","B3","B4","B5","B6","B7","B8","B8A","B11","B12">>

\* bands of a COPERNICUS/S2_SR_HARMONIZED image that the script names (line 24)
S2_BANDS == BANDS10_INIT \o <<"SCL">>

\* values of the Scene Classification Layer
SCLValues == 0..11

(* ------------------------------ maskS2 -------------------------------- *)

\* a source image: its SCL band, every pixel valid
SourceImage(scl) == [scl |-> scl, mask |-> [p \in DOMAIN scl |-> TRUE]]

\* ee.Image.updateMask: a pixel stays valid when it was valid and m is non-zero
updateMask(image, m) ==
  [image EXCEPT !.mask = [p \in DOMAIN image.mask |-> image.mask[p] /\ m[p]]]

\* faulty variant: the shadow class is left out of the mask
maskS2_noShadow(image) ==
  LET scl == image.scl
      cloud(p) == scl[p] = 8 \/ scl[p] = 9 \/ scl[p] = 10 \/ scl[p] = 11
      sat(p) == scl[p] = 1
  IN updateMask(image, [p \in DOMAIN scl |-> ~(cloud(p) \/ sat(p))])

\* lines 47-54
maskS2(image) ==
  LET scl == image.scl
      cloud(p) == scl[p] = 8 \/ scl[p] = 9 \/ scl[p] = 10 \/ scl[p] = 11
      shadow(p) == scl[p] = 3
      sat(p) == scl[p] = 1
      mask(p) == ~(cloud(p) \/ shadow(p) \/ sat(p))
  IN updateMask(image, [p \in DOMAIN scl |-> mask(p)])

(* --------------------------- getComposite ----------------------------- *)

\* ee.ImageCollection.map
MapCol(col) == [k \in DOMAIN col |-> maskS2(col[k])]

\* lines 66-68: the images of the date window that intersect geom
FilteredCollection(g) == world[g.region + 1].images

\* ee.ImageCollection.median: a pixel has a value when at least one image of
\* the collection is valid there; an empty collection gives an image without bands
median(col) ==
  [bands |-> IF Len(col) = 0 THEN <<>> ELSE S2_BANDS,
   valid |-> [p \in 1..NPix |-> \E k \in DOMAIN col : col[k].mask[p]]]

\* ee.Image.clip: the image fails when the geometry does
clip(img, g) == [img EXCEPT !.ok = img.ok /\ g.ok]

\* lines 57-62: normalizedDifference fails on a band the image does not have
addIndices(img) ==
  LET need == {"B8", "B4", "B3", "B11"}
      ok == img.ok /\ need \subseteq Range(img.bands)
  IN [img EXCEPT !.ok = ok,
                 !.bands = IF ok THEN img.bands \o <<"NDVI", "NDWI", "NDBI">>
                           ELSE <<>>]

\* line 73: ee.Algorithms.If(validCount.gt(0), masked, col); validCount is
\* masked.size(), the number of images (line 71)
Selected(masked, col) ==
  LET validCount == Len(masked)
  IN IF validCount > 0 THEN masked ELSE col

\* lines 65-76, with the intermediate values kept
getCompositeSteps(g) ==
  LET col == FilteredCollection(g)
      masked == IF APPLY_CLOUD_MASK THEN MapCol(col) ELSE col
      selected == Selected(masked, col)
      med == median(selected)
  IN [col |-> col, masked |-> masked, selected |-> selected,
      image |-> addIndices(clip([region |-> g.region, ok |-> TRUE,
                                 bands |-> med.bands, valid |-> med.valid], g))]

getComposite(g) == getCompositeSteps(g).image

(* ---------------------------- autoSamples ----------------------------- *)

\* line 82: ESA values
from == <<10, 20, 30, 40, 50, 60, 70, 80, 90, 95, 100>>
\* line 83: custom class remap
to == << 3,  3,  4,  4,  1,  2,  3,  0,  3,  3,   3>>

\* line 88
numPoints == 500

\* faulty variant: a value the table does not list passes through unchanged
remapValue_passThrough(v) ==
  IF \E k \in DOMAIN from : from[k] = v
  THEN [masked |-> FALSE, value |-> to[CHOOSE k \in DOMAIN from : from[k] = v]]
  ELSE [masked |-> FALSE, value |-> v]

\* ee.Image.remap(from, to) on one pixel, no defaultValue given (line 85):
\* a value that from does not list is masked
remapValue(v) ==
  IF \E k \in DOMAIN from : from[k] = v
  THEN [masked |-> FALSE, value |-> to[CHOOSE k \in DOMAIN from : from[k] = v]]
  ELSE [masked |-> TRUE, value |-> 0]

\* line 85 on a raster: the histogram of class_auto over the unmasked pixels
remap(wc) ==
  LET kept == {v \in DOMAIN wc : ~remapValue(v).masked /\ wc[v] > 0}
      classes == {remapValue(v).value : v \in kept}
  IN [c \in classes |->
        SumOver(wc, {v \in kept : remapValue(v).value = c})]

\* faulty variant: every pixel of a class is drawn, numPoints is not applied
stratifiedSample_uncapped(labeled, num) ==
  [c \in DOMAIN labeled |-> labeled[c]]

\* ee.Image.stratifiedSample (lines 87-94): numPoints is the number of points
\* drawn in EACH class of classBand, or every pixel of a class that has fewer
stratifiedSample(labeled, num) ==
  [c \in DOMAIN labeled |-> IF labeled[c] < num THEN labeled[c] ELSE num]

\* line 80: the WorldCover raster over geom
WorldCover(g) == world[g.region + 1].wc

\* faulty variant: the samples are always drawn over the first feature
autoSamples_firstRegion(g) ==
  [region |-> 0, ok |-> g.ok,
   hist |-> stratifiedSample(remap(world[1].wc), numPoints)]

\* lines 79-95
autoSamples(g) ==
  LET wc == WorldCover(g)
      labeled == remap(wc)
  IN [region |-> g.region, ok |-> g.ok,
      hist |-> stratifiedSample(labeled, numPoints)]

(* ------------------------- values not yet set ------------------------- *)

\* a geometry of feature k that the engine accepts
GeomOf(k) == [region |-> k, ok |-> TRUE]

NoFeature == [id |-> 0, hasName |-> FALSE, geomOk |-> FALSE]
NoImage == [region |-> 0, ok |-> FALSE, bands |-> <<>>, valid |-> <<>>]
NoSamples == [region |-> 0, ok |-> FALSE, hist |-> <<>>]
NoClassifier ==
  [ok |-> FALSE, labels |-> {}, selectBands |-> <<>>, inputProperties |-> <<>>,
   classProperty |-> "", compRegion |-> 0, samplesRegion |-> 0]
NoLulc ==
  [ok |-> FALSE, labels |-> {}, bands |-> <<>>, region |-> 0, geomRegion |-> 0,
   classifier |-> NoClassifier]

NoSteps == [col |-> <<>>, masked |-> <<>>, selected |-> <<>>, image |-> NoImage]
NoCall == [fn |-> "none", done |-> FALSE, steps |-> NoSteps, samples |-> NoSamples]

(* ------------------------ stableGeom, trainRF ------------------------- *)

\* lines 39-44: the geometry of the feature, dissolved and simplified; the
\* engine rejects a geometry that is still too complex when it is used
stableGeom(feat) == [region |-> feat.id, ok |-> feat.geomOk]

\* ee.Image.select: fails on a band the image does not have
select(img, bands) ==
  LET ok == img.ok /\ Range(bands) \subseteq Range(img.bands)
  IN [img EXCEPT !.ok = ok, !.bands = IF ok THEN bands ELSE <<>>]

\* ee.Image.sampleRegions (lines 99-103): the labels of the samples that fall
\* on a valid pixel of img (the loop's images are uniform over the region)
sampleRegions(img, smp) ==
  [ok |-> img.ok /\ smp.ok,
   hist |-> IF img.ok /\ smp.ok /\ (\E p \in DOMAIN img.valid : img.valid[p])
            THEN smp.hist ELSE <<>>]

\* faulty variant: the classifier is told the raw bands only, without the indices
trainRF_rawBands(img, smp, bands, classProp) ==
  LET training == sampleRegions(select(img, bands), smp)
  IN [ok |-> training.ok /\ Cardinality(DOMAIN training.hist) >= 2,
      labels |-> DOMAIN training.hist,
      selectBands |-> bands,
      inputProperties |-> SubSeq(bands, 1, Len(BANDS10)),
      classProperty |-> classProp,
      compRegion |-> img.region,
      samplesRegion |-> smp.region]

\* faulty variant: a training table of a single class is accepted
trainRF_anyLabels(img, smp, bands, classProp) ==
  LET training == sampleRegions(select(img, bands), smp)
  IN [ok |-> training.ok /\ DOMAIN training.hist # {},
      labels |-> DOMAIN training.hist,
      selectBands |-> bands,
      inputProperties |-> bands,
      classProperty |-> classProp,
      compRegion |-> img.region,
      samplesRegion |-> smp.region]

\* lines 98-113: the script sets no guard of its own; the engine's
\* smileRandomForest(...).train fails, when the classifier is evaluated, on
\* an empty training table ('No valid training data were found.') and on a
\* table of a single class ('Only one class.'); a trained forest predicts
\* the labels it has seen
trainRF(img, smp, bands, classProp) ==
  LET training == sampleRegions(select(img, bands), smp)
  IN [ok |-> training.ok /\ Cardinality(DOMAIN training.hist) >= 2,
      labels |-> DOMAIN training.hist,
      selectBands |-> bands,
      inputProperties |-> bands,
      classProperty |-> classProp,
      compRegion |-> img.region,
      samplesRegion |-> smp.region]

\* line 143: comp.select(inputBands).classify(clf).rename('LULC').clip(geom);
\* classify needs the classifier's inputProperties among the image's bands;
\* labels: the labels the raster's valid pixels can carry
classify(img, bands, classifier, g) ==
  LET sel == select(img, bands)
      ok == /\ sel.ok /\ classifier.ok /\ g.ok
            /\ Range(classifier.inputProperties) \subseteq Range(sel.bands)
  IN [ok |-> ok,
      labels |-> IF ok /\ (\E p \in DOMAIN img.valid : img.valid[p])
                 THEN classifier.labels ELSE {},
      bands |-> bands,
      region |-> img.region,
      geomRegion |-> g.region,
      classifier |-> classifier]

(* --------------------------- EXECUTION loop --------------------------- *)

\* Map.addLayer: the layer is listed whether or not its image evaluates
Layer(kind, nm, ok, img) == [kind |-> kind, name |-> nm, ok |-> ok, image |-> img]

\* ee.List.get, 0-based (line 132)
listGet(k) == fc[k + 1]

\* line 131: i++
Increment(k) == k + 1

Log(stage) == trace' = Append(trace, <<i, stage>>)

\* lines 119-129: the boundaries layer, the list and its size
Setup ==
  /\ pc = "start"
  /\ layers' = Append(layers, Layer("City Boundaries", 0, TRUE, NoLulc))
  /\ n' = Len(fc)
  /\ i' = 0
  /\ pc' = "test"
  /\ UNCHANGED <<APPLY_CLOUD_MASK, BANDS10, fc, world, f, name, geom, comp,
                 inputBands, samples, clf, lulc, trace, call>>

\* line 131: i < n
LoopTest ==
  /\ pc = "test"
  /\ pc' = IF i < n THEN "fetch" ELSE "done"
  /\ UNCHANGED <<APPLY_CLOUD_MASK, BANDS10, fc, world, n, i, f, name, geom, comp,
                 inputBands, samples, clf, lulc, layers, trace, call>>

\* lines 132-133: getInfo() throws when the feature has no NM_MUN; nothing
\* catches it and the script ends there
FetchName ==
  /\ pc = "fetch"
  /\ f' = listGet(i)
  /\ IF f'.hasName
     THEN name' = f'.id /\ pc' = "stableGeom"
     ELSE name' = name /\ pc' = "aborted"
  /\ UNCHANGED <<APPLY_CLOUD_MASK, BANDS10, fc, world, n, i, geom, comp,
                 inputBands, samples, clf, lulc, layers, trace, call>>

\* line 135
StableGeom ==
  /\ pc = "stableGeom"
  /\ geom' = stableGeom(f)
  /\ Log("stableGeom")
  /\ pc' = "getComposite"
  /\ UNCHANGED <<APPLY_CLOUD_MASK, BANDS10, fc, world, n, i, f, name, comp,
                 inputBands, samples, clf, lulc, layers, call>>

\* line 136
GetComposite ==
  /\ pc = "getComposite"
  /\ comp' = getComposite(geom)
  /\ Log("getComposite")
  /\ pc' = "inputBands"
  /\ UNCHANGED <<APPLY_CLOUD_MASK, BANDS10, fc, world, n, i, f, name, geom,
                 inputBands, samples, clf, lulc, layers, call>>

\* line 138: Array.prototype.concat returns a new array
InputBands ==
  /\ pc = "inputBands"
  /\ inputBands' = BANDS10 \o <<"NDVI", "NDWI", "NDBI">>
  /\ pc' = "autoSamples"
  /\ UNCHANGED <<APPLY_CLOUD_MASK, BANDS10, fc, world, n, i, f, name, geom, comp,
                 samples, clf, lulc, layers, trace, call>>

\* line 140
AutoSamples ==
  /\ pc = "autoSamples"
  /\ samples' = autoSamples(geom)
  /\ Log("autoSamples")
  /\ pc' = "trainRF"
  /\ UNCHANGED <<APPLY_CLOUD_MASK, BANDS10, fc, world, n, i, f, name, geom, comp,
                 inputBands, clf, lulc, layers, call>>

\* line 141
TrainRF ==
  /\ pc = "trainRF"
  /\ clf' = trainRF(comp, samples, inputBands, "class_auto")
  /\ Log("trainRF")
  /\ pc' = "classify"
  /\ UNCHANGED <<APPLY_CLOUD_MASK, BANDS10, fc, world, n, i, f, name, geom, comp,
                 inputBands, samples, lulc, layers, call>>

\* line 143
Classify ==
  /\ pc = "classify"
  /\ lulc' = classify(comp, inputBands, clf, geom)
  /\ Log("classify")
  /\ pc' = "addRGB"
  /\ UNCHANGED <<APPLY_CLOUD_MASK, BANDS10, fc, world, n, i, f, name, geom, comp,
                 inputBands, samples, clf, layers, call>>

\* line 145
AddRGB ==
  /\ pc = "addRGB"
  /\ LET rgb == select(comp, <<"B4", "B3", "B2">>)
     IN layers' = Append(layers,
          Layer("RGB", name, rgb.ok,
                [NoLulc EXCEPT !.bands = rgb.bands, !.region = rgb.region]))
  /\ Log("RGB")
  /\ pc' = "addLULC"
  /\ UNCHANGED <<APPLY_CLOUD_MASK, BANDS10, fc, world, n, i, f, name, geom, comp,
                 inputBands, samples, clf, lulc, call>>

\* line 146, then i++ (line 131)
AddLULC ==
  /\ pc = "addLULC"
  /\ layers' = Append(layers, Layer("LULC", name, lulc.ok, lulc))
  /\ Log("LULC")
  /\ i' = Increment(i)
  /\ pc' = "test"
  /\ UNCHANGED <<APPLY_CLOUD_MASK, BANDS10, fc, world, n, f, name, geom, comp,
                 inputBands, samples, clf, lulc, call>>

Next ==
  \/ Setup \/ LoopTest \/ FetchName \/ StableGeom \/ GetComposite
  \/ InputBands \/ AutoSamples \/ TrainRF \/ Classify \/ AddRGB \/ AddLULC

\* WorldCover values the remap table does not list
UnlistedValues == {0, 255}
WCValues == Range(from) \cup UnlistedValues
PixelCounts == {1, numPoints, numPoints + 1}

\* a region's WorldCover histogram: up to MaxStrata values present
SampleInputs ==
  UNION {[S -> PixelCounts] :
           S \in {T \in SUBSET WCValues : Cardinality(T) <= MaxStrata}}

\* the date window of a region in a batch: no image, a cloudy one, a clear one
LoopImages ==
  {<<>>, <<SourceImage([p \in 1..NPix |-> 9])>>,
   <<SourceImage([p \in 1..NPix |-> 4])>>}

\* the WorldCover raster of a region in a batch: no coverage, water only,
\* built-up and water with an unlisted value, tree cover and grassland
LoopWorldCover ==
  {<<>>, (80 :> numPoints + 1),
   (50 :> 1) @@ (80 :> numPoints) @@ (255 :> 1),
   (10 :> 1) @@ (30 :> numPoints)}

FeatureInputs(k) ==
  {[id |-> k, hasName |-> h, geomOk |-> g] :
     <<h, g>> \in {<<TRUE, TRUE>>, <<FALSE, TRUE>>, <<TRUE, FALSE>>}}

WorldInputs == [images : LoopImages, wc : LoopWorldCover]

\* the state when the script starts (lines 14-33 have run)
Init ==
  /\ APPLY_CLOUD_MASK = TRUE
  /\ BANDS10 = BANDS10_INIT
  /\ \E m \in 0..MaxRegions :
       /\ fc \in {s \in [1..m -> UNION {FeatureInputs(k) : k \in 0..(m - 1)}] :
                    \A k \in 1..m : s[k].id = k - 1}
       /\ world \in [1..m -> WorldInputs]
  /\ pc = "start" /\ n = 0 /\ i = 0
  /\ f = NoFeature /\ name = 0 /\ geom = GeomOf(0) /\ comp = NoImage
  /\ inputBands = <<>> /\ samples = NoSamples
  /\ clf = NoClassifier /\ lulc = NoLulc
  /\ layers = <<>> /\ trace = <<>>
  /\ call = NoCall

Spec == Init /\ [][Next]_vars

\* the script over a single feature, its WorldCover raster drawn from every
\* value the raster can hold
InitRegion ==
  /\ APPLY_CLOUD_MASK = TRUE
  /\ BANDS10 = BANDS10_INIT
  /\ fc \in [1..1 -> FeatureInputs(0)]
  /\ world \in [1..1 -> [images : LoopImages, wc : SampleInputs \cup LoopWorldCover]]
  /\ pc = "start" /\ n = 0 /\ i = 0
  /\ f = NoFeature /\ name = 0 /\ geom = GeomOf(0) /\ comp = NoImage
  /\ inputBands = <<>> /\ samples = NoSamples
  /\ clf = NoClassifier /\ lulc = NoLulc
  /\ layers = <<>> /\ trace = <<>>
  /\ call = NoCall

SpecRegion == InitRegion /\ [][Next]_vars

(* ------------------- single calls of the helpers ---------------------- *)


\* SCL values of the scenes of a date window: shadow, vegetation, cloud
SceneSCL == {3, 4, 9}

\* one image over every SCL value, or a window of up to MaxImages scenes
CompositeInputs ==
  {<<SourceImage(s)>> : s \in [1..NPix -> SCLValues]}
  \cup SeqsUpTo({SourceImage(s) : s \in [1..NPix -> SceneSCL]}, MaxImages)

\* the loop's variables while a helper is called on its own
LoopIdle ==
  /\ BANDS10 = BANDS10_INIT
  /\ pc = "idle" /\ n = 0 /\ i = 0
  /\ f = NoFeature /\ name = 0 /\ geom = GeomOf(0) /\ comp = NoImage
  /\ inputBands = <<>> /\ samples = NoSamples
  /\ clf = NoClassifier /\ lulc = NoLulc
  /\ layers = <<>> /\ trace = <<>>

loopVars == <<BANDS10, pc, n, i, f, name, geom, comp, inputBands, samples,
              clf, lulc, layers, trace>>

InitComposite ==
  /\ APPLY_CLOUD_MASK \in BOOLEAN
  /\ fc = <<>>
  /\ \E col \in CompositeInputs : world = <<[images |-> col, wc |-> <<>>]>>
  /\ call = [NoCall EXCEPT !.fn = "getComposite"]
  /\ LoopIdle

CallGetComposite ==
  /\ call.fn = "getComposite" /\ ~call.done
  /\ call' = [call EXCEPT !.done = TRUE, !.steps = getCompositeSteps(GeomOf(0))]
  /\ UNCHANGED <<APPLY_CLOUD_MASK, fc, world, loopVars>>

SpecComposite == InitComposite /\ [][CallGetComposite]_vars

InitSample ==
  /\ APPLY_CLOUD_MASK = TRUE
  /\ fc = <<>>
  /\ \E wc \in SampleInputs : world = <<[images |-> <<>>, wc |-> wc]>>
  /\ call = [NoCall EXCEPT !.fn = "autoSamples"]
  /\ LoopIdle

CallAutoSamples ==
  /\ call.fn = "autoSamples" /\ ~call.done
  /\ call' = [call EXCEPT !.done = TRUE, !.samples = autoSamples(GeomOf(0))]
  /\ UNCHANGED <<APPLY_CLOUD_MASK, fc, world, loopVars>>

SpecSample == InitSample /\ [][CallAutoSamples]_vars

(* ============================== claims ================================ *)

TargetCodes == 0..4
IndexBands == <<"NDVI", "NDWI", "NDBI">>
MaskedSCL == {8, 9, 10, 11, 3, 1}
LayersOf(kind) == {layers[k] : k \in {j \in DOMAIN layers : layers[j].kind = kind}}
Terminated == pc \in {"done", "aborted"}

(* ----- getComposite, maskS2 (SpecComposite) ----- *)

\* C1: with cloud masking on and at least one source image in the window, if
\* masking leaves no valid pixel in any image, the median is taken over the
\* unmasked collection and the composite has a valid pixel.
C1_FallbackEngaged ==
  LET st == call.steps
  IN (/\ call.done /\ APPLY_CLOUD_MASK /\ Len(st.col) >= 1
      /\ \A k \in DOMAIN st.masked : \A p \in 1..NPix : ~st.masked[k].mask[p])
     => /\ st.selected = st.col
        /\ \E p \in 1..NPix : st.image.valid[p]

\* C10: a pixel is masked by maskS2, and so left out of the median, exactly
\* when its SCL value is 8, 9, 10, 11, 3 or 1; with the flag off no pixel is
\* masked.
C10_MaskExactly ==
  LET st == call.steps
  IN call.done =>
       /\ \A k \in DOMAIN st.col : \A p \in 1..NPix :
            /\ APPLY_CLOUD_MASK =>
                 (~st.masked[k].mask[p] <=> st.col[k].scl[p] \in MaskedSCL)
            /\ ~APPLY_CLOUD_MASK => st.masked[k].mask[p]
       /\ \A p \in 1..NPix :
            st.image.valid[p] <=>
              \E k \in DOMAIN st.col :
                ~APPLY_CLOUD_MASK \/ st.col[k].scl[p] \notin MaskedSCL

C10_Witness ==
  /\ call.done /\ APPLY_CLOUD_MASK /\ Len(call.steps.col) = 1
  /\ \E p, q \in 1..NPix :
       /\ call.steps.col[1].scl[p] = 3 /\ ~call.steps.masked[1].mask[p]
       /\ call.steps.col[1].scl[q] = 7 /\ call.steps.masked[1].mask[q]

(* ----- autoSamples (SpecSample) ----- *)

\* C4 as stated: over a raster fully covered by value 80, autoSamples returns
\* at most 500 points and every point is labeled class 1.
C4_AllBuiltUp ==
  (call.done /\ DOMAIN world[1].wc = {80})
    => /\ Total(call.samples.hist) <= 500
       /\ \A c \in DOMAIN call.samples.hist : c = 1

\* C4 amended: over a raster fully covered by value 80, autoSamples returns
\* at least one and at most 500 points and every point is labeled class 0.
C4_AllWater ==
  (call.done /\ DOMAIN world[1].wc = {80})
    => /\ Total(call.samples.hist) <= 500
       /\ DOMAIN call.samples.hist = {0}

C4_Witness ==
  /\ call.done /\ DOMAIN world[1].wc = {80} /\ world[1].wc[80] > 500
  /\ Total(call.samples.hist) = 500

\* C5: the sample set holds only labels of classes present in the region, and
\* its total point count over all classes is at most 500.
C5_PresentAndCapped ==
  call.done =>
    /\ DOMAIN call.samples.hist \subseteq
         {remapValue(v).value : v \in {w \in DOMAIN world[1].wc : ~remapValue(w).masked}}
    /\ Total(call.samples.hist) <= 500

(* ----- EXECUTION loop (Spec) ----- *)

\* the samples, classifier and raster the pipeline gives for feature k of the
\* batch when it is run on that feature alone
PipelineAlone(k) ==
  LET g == stableGeom(fc[k])
      c == getComposite(g)
      b == BANDS10_INIT \o IndexBands
      s == autoSamples(g)
      t == trainRF(c, s, b, "class_auto")
  IN [fetched |-> fc[k].hasName, samples |-> s, lulc |-> classify(c, b, t, g)]

HasLayers(k) ==
  /\ \E l \in LayersOf("RGB") : l.name = k - 1 /\ l.ok
  /\ \E l \in LayersOf("LULC") : l.name = k - 1 /\ l.ok

\* C2: when the script has ended, every region whose own pipeline succeeds
\* has its RGB and LULC layers, whatever stage failed for another region of
\* the batch.
C2_Isolation ==
  Terminated =>
    \A a, b \in DOMAIN fc :
      (/\ a # b
       /\ ~(PipelineAlone(a).fetched /\ PipelineAlone(a).lulc.ok)
       /\ PipelineAlone(b).fetched /\ PipelineAlone(b).lulc.ok)
      => HasLayers(b)

\* C3 (checked under SpecRegion): every label of a sample set, of a classifier and of a classification
\* raster is one of 0..4, and the pixels of a WorldCover value that the remap
\* table does not list give no sample.
C3_LabelsInTaxonomy ==
  /\ DOMAIN samples.hist \subseteq TargetCodes
  /\ clf.labels \subseteq TargetCodes
  /\ lulc.labels \subseteq TargetCodes
  /\ \A l \in LayersOf("LULC") : l.image.labels \subseteq TargetCodes
  /\ LET wc == world[samples.region + 1].wc
     IN Total(samples.hist) <= SumOver(wc, DOMAIN wc \cap Range(from))

C3_Witness ==
  \E l \in LayersOf("LULC") :
    /\ l.ok /\ l.image.labels # {}
    /\ DOMAIN world[l.name + 1].wc \cap UnlistedValues # {}

\* C6: for a region whose samples are none or of a single class, the
\* classifier fails to train, the classification fails with it and carries
\* no label, and the region has no LULC layer that evaluates (the layer the
\* loop lists shows the engine's training error).
C6_DegenerateFails ==
  Cardinality(DOMAIN samples.hist) <= 1 =>
    /\ pc \in {"classify", "addRGB", "addLULC"} =>
         ~clf.ok /\ clf.samplesRegion = samples.region
    /\ pc \in {"addRGB", "addLULC"} => ~lulc.ok /\ lulc.labels = {}
    /\ \A l \in LayersOf("LULC") :
         l.name = samples.region => ~l.ok /\ l.image.labels = {}

\* a region with clear imagery and samples of one class only has been through
\* the whole loop body: its RGB layer evaluates, its LULC layer does not
C6_Witness ==
  /\ pc = "test" /\ i >= 1
  /\ comp.ok /\ (\A p \in DOMAIN comp.valid : comp.valid[p])
  /\ Cardinality(DOMAIN samples.hist) = 1
  /\ \E l \in LayersOf("LULC") : l.name = samples.region /\ ~l.ok
  /\ \E l \in LayersOf("RGB") : l.name = samples.region /\ l.ok

\* C7: in every iteration the composite, the samples, the classifier and the
\* raster in use are those of the iteration's own feature, and every LULC
\* layer was classified by a classifier trained from the composite and the
\* samples of the region the layer is named after.
C7_NoCrossRegion ==
  /\ pc \in {"getComposite", "inputBands", "autoSamples", "trainRF", "classify",
             "addRGB", "addLULC"} => geom.region = i /\ name = i
  /\ pc \in {"inputBands", "autoSamples", "trainRF", "classify", "addRGB",
             "addLULC"} => comp.region = i
  /\ pc \in {"trainRF", "classify", "addRGB", "addLULC"} => samples.region = i
  /\ pc \in {"classify", "addRGB", "addLULC"} =>
       clf.compRegion = i /\ clf.samplesRegion = i
  /\ pc \in {"addRGB", "addLULC"} =>
       lulc.region = i /\ lulc.geomRegion = i /\ lulc.classifier = clf
  /\ \A l \in LayersOf("LULC") :
       /\ l.image.region = l.name /\ l.image.geomRegion = l.name
       /\ l.image.classifier.compRegion = l.name
       /\ l.image.classifier.samplesRegion = l.name
       /\ l.image.classifier.labels \subseteq
            DOMAIN PipelineAlone(l.name + 1).samples.hist
  /\ \A l \in LayersOf("RGB") : l.image.region = l.name

C7_Witness ==
  /\ pc = "done"
  /\ \E l1, l2 \in LayersOf("LULC") :
       /\ l1.ok /\ l2.ok /\ l1.name # l2.name
       /\ l1.image.labels # l2.image.labels

Stages ==
  <<"stableGeom", "getComposite", "autoSamples", "trainRF", "classify", "RGB", "LULC">>

\* the stages of regions 0 .. m-1, region after region
ExpectedTrace(m) ==
  [j \in 1..(Len(Stages) * m) |->
     <<(j - 1) \div Len(Stages), Stages[((j - 1) % Len(Stages)) + 1]>>]

\* C8: the stages run region after region in input order, within a region in
\* the order stableGeom, getComposite, autoSamples, trainRF, classify, RGB
\* layer, LULC layer; the regions before i are complete before region i
\* starts; and when the script has ended every region of the collection has
\* been processed exactly once.
C8_SequentialOrder ==
  /\ Len(trace) <= Len(Stages) * Len(fc)
  /\ trace = SubSeq(ExpectedTrace(Len(fc)), 1, Len(trace))
  /\ pc \in {"test", "fetch", "aborted", "done"} => trace = ExpectedTrace(i)
  /\ Terminated => trace = ExpectedTrace(Len(fc))
  /\ \A k \in DOMAIN layers :
       k > 1 => /\ layers[k].kind = (IF k % 2 = 0 THEN "RGB" ELSE "LULC")
                /\ layers[k].name = (k - 2) \div 2

\* C9: the bands selected before classify are the list the classifier was
\* trained with, both as selected bands and as inputProperties: BANDS10
\* followed by NDVI, NDWI, NDBI; BANDS10 is never modified.
C9_SameBands ==
  /\ BANDS10 = BANDS10_INIT
  /\ pc \in {"classify", "addRGB", "addLULC"} =>
       /\ clf.selectBands = BANDS10_INIT \o IndexBands
       /\ clf.inputProperties = BANDS10_INIT \o IndexBands
  /\ \A l \in LayersOf("LULC") :
       /\ l.image.bands = BANDS10_INIT \o IndexBands
       /\ l.image.bands = l.image.classifier.inputProperties
       /\ l.image.bands = l.image.classifier.selectBands

C9_Witness ==
  /\ pc = "done"
  /\ \E l \in LayersOf("LULC") : l.ok /\ Len(l.image.bands) = 13

====
